---------------------------- MODULE Spec2Model ----------------------------
(***************************************************************************)
(* A model of the HTTP-binding resolution of grpc-core:                    *)
(*   internal/descriptor/services.go  (loadServices, newMethod, newParam,  *)
(*                                     newBody, newResponse,               *)
(*                                     resolveFieldPath, role extraction)  *)
(*   protoc-gen-sdk template.go       (applyTemplate, getQueryParams)      *)
(*                                                                         *)
(* Conventions.  A Go pointer that may be nil is a sequence of length 0    *)
(* (nil) or 1.  A Go (value, error) pair is a record [err, val] of two     *)
(* such sequences.  A dotted field path "a.b.c" is the sequence of its     *)
(* components <<"a","b","c">> (what strings.Split(path, ".") yields); the  *)
(* empty string is <<>> and the string "*" is <<"*">>.  JoinDot gives the  *)
(* string back where the code prints or compares it.                       *)
(***************************************************************************)
EXTENDS Naturals, Sequences, FiniteSets, TLC

VARIABLES
    generateUnboundMethods, \* Registry.generateUnboundMethods
    allowDeleteBody,        \* Registry.allowDeleteBody
    pc,                     \* position of the run
    svcs,                   \* loadServices: var svcs []*Service
    svc,                    \* loadServices: the service being filled, svc.Methods
    nsvc,                   \* loadServices: services of the file visited so far
    meths,                  \* Registry.meths, FQMN -> Method
    fileServices,           \* file.Services (nil until assigned)
    loadErr,                \* the error loadServices returned (nil if none)
    lastCall,               \* arguments of the latest newMethod call
    lastRet,                \* what the latest newMethod call returned
    annotationMap,          \* Registry.annotationMap
    emit,                   \* what applyTemplate returned
    call,                   \* a single call of a resolver function: its arguments
    ret,                    \* ... and what it returned
    targets,                \* the files loaded before the current one; Generate's targets
    ntarget,                \* Generate: targets visited so far
    files,                  \* Generate: var files []*descriptor.ResponseFile
    genRet                  \* what Generate returned

loadVars == <<generateUnboundMethods, allowDeleteBody, svcs, svc, nsvc, meths,
              fileServices, loadErr, lastCall, lastRet, annotationMap, emit>>
callVars == <<call, ret>>
genVars == <<targets, ntarget, files, genRet>>
vars == <<generateUnboundMethods, allowDeleteBody, pc, svcs, svc, nsvc, meths,
          fileServices, loadErr, lastCall, lastRet, annotationMap, emit, call, ret,
          targets, ntarget, files, genRet>>

-----------------------------------------------------------------------------
(* Bounds of the model. *)

\* longest dotted field path handed to a resolver function
MaxPathLen == 3
\* most methods in the file loaded by Spec
MaxMethods == 2
\* most services in the file loaded by Spec
MaxServices == 2

-----------------------------------------------------------------------------
(* nil, values and errors *)

Nil == <<>>
Some(x) == <<x>>
Ok(v) == [err |-> Nil, val |-> v]
Fail(e) == [err |-> Some(e), val |-> Nil]
IsErr(r) == r.err # Nil

Min(S) == CHOOSE x \in S : \A y \in S : x <= y

RECURSIVE JoinDot(_)
JoinDot(path) ==
    IF path = <<>> THEN ""
    ELSE IF Len(path) = 1 THEN path[1]
    ELSE path[1] \o "." \o JoinDot(Tail(path))

-----------------------------------------------------------------------------
(* The descriptor graph the registry holds after the load phase. *)

Field(owner, name, type, typeName, optional) ==
    [Message |-> owner, Name |-> name, Type |-> type, TypeName |-> typeName,
     Proto3Optional |-> optional]

Aggregate == {"TYPE_MESSAGE", "TYPE_GROUP"}

msgs ==
    [fqmn \in {".pkg.Req", ".pkg.Sub", ".pkg.Resp", ".google.protobuf.Timestamp"} |->
        CASE fqmn = ".pkg.Req" ->
               [FQMN |-> fqmn, Name |-> "Req", Fields |-> <<
                   Field(fqmn, "id", "TYPE_STRING", "", FALSE),
                   Field(fqmn, "opt", "TYPE_STRING", "", TRUE),
                   Field(fqmn, "sub", "TYPE_MESSAGE", ".pkg.Sub", FALSE),
                   Field(fqmn, "ts", "TYPE_MESSAGE", ".google.protobuf.Timestamp", FALSE),
                   Field(fqmn, "ghost", "TYPE_MESSAGE", ".pkg.Ghost", FALSE) >>]
          [] fqmn = ".pkg.Sub" ->
               [FQMN |-> fqmn, Name |-> "Sub", Fields |-> <<
                   Field(fqmn, "id", "TYPE_INT32", "", FALSE),
                   Field(fqmn, "opt", "TYPE_MESSAGE", ".pkg.Sub", TRUE),
                   Field(fqmn, "sub", "TYPE_GROUP", ".pkg.Sub", FALSE),
                   Field(fqmn, "ts", "TYPE_MESSAGE", ".google.protobuf.Timestamp", FALSE) >>]
          [] fqmn = ".pkg.Resp" ->
               [FQMN |-> fqmn, Name |-> "Resp", Fields |-> <<
                   Field(fqmn, "id", "TYPE_STRING", "", FALSE),
                   Field(fqmn, "opt", "TYPE_STRING", "", TRUE),
                   Field(fqmn, "sub", "TYPE_MESSAGE", ".pkg.Sub", FALSE) >>]
          [] OTHER ->
               [FQMN |-> fqmn, Name |-> "Timestamp", Fields |-> <<
                   Field(fqmn, "seconds", "TYPE_INT64", "", FALSE) >>]]

\* component names a field path is built from; "zz" is a field of no message
FieldNames == {"id", "opt", "sub", "ts", "ghost", "seconds", "zz"}

LookupMsg(location, name) ==
    IF name \in DOMAIN msgs THEN Ok(Some(msgs[name]))
    ELSE Fail([kind |-> "no message found", name |-> name])

wellKnownTypeConv == {".google.protobuf.Timestamp", ".google.protobuf.Duration",
                      ".google.protobuf.StringValue"}

IsWellKnownType(typeName) == typeName \in wellKnownTypeConv

-----------------------------------------------------------------------------
(* services.go: field path resolution *)

\* "v, err := ...; if err != nil { return nil, err }": r's error, or f of r's value
Try(r, f(_)) == IF r.err # Nil THEN [err |-> r.err, val |-> Nil] ELSE f(r.val)

lookupField(msg, name) ==
    LET at == {i \in 1..Len(msg.Fields) : msg.Fields[i].Name = name}
    IN  IF at = {} THEN Nil ELSE Some(msg.Fields[Min(at)])

\* a variant that looks the type of any field up, aggregate or not
messageOfAnyType(msg, f, path) == LookupMsg(msg.FQMN, f.TypeName)

\* resolveFieldPath, i > 0: the message of the field resolved before, f
messageOf(msg, f, path) ==
    IF f.Type \in Aggregate
    THEN LookupMsg(msg.FQMN, f.TypeName)
    ELSE Fail([kind |-> "not an aggregate type", field |-> f.Name,
               path |-> JoinDot(path)])

\* a variant that reports the message the walk has reached, not the root
componentNamesReached(root, msg, path, c, f, isPathParam) ==
    IF f = Nil
    THEN Fail([kind |-> "no field found", path |-> JoinDot(path), in |-> msg.Name])
    ELSE IF isPathParam /\ f[1].Proto3Optional
    THEN Fail([kind |-> "optional field not allowed in field path",
               field |-> f[1].Name, path |-> JoinDot(path)])
    ELSE Ok([Name |-> c, Target |-> f[1]])

\* resolveFieldPath: what the lookup f of component c in msg adds to the result
component(root, msg, path, c, f, isPathParam) ==
    IF f = Nil
    THEN Fail([kind |-> "no field found", path |-> JoinDot(path), in |-> root.Name])
    ELSE IF isPathParam /\ f[1].Proto3Optional
    THEN Fail([kind |-> "optional field not allowed in field path",
               field |-> f[1].Name, path |-> JoinDot(path)])
    ELSE Ok([Name |-> c, Target |-> f[1]])

\* the loop of resolveFieldPath, from component i on
RECURSIVE resolveLoop(_, _, _, _, _, _)
resolveLoop(root, msg, path, i, result, isPathParam) ==
    IF i > Len(path) THEN Ok(result)
    ELSE Try(IF i = 1 THEN Ok(Some(msg)) ELSE messageOf(msg, result[i - 1].Target, path),
              LAMBDA cur :
                Try(component(root, cur[1], path, path[i],
                               lookupField(cur[1], path[i]), isPathParam),
                     LAMBDA comp :
                       resolveLoop(root, cur[1], path, i + 1, Append(result, comp),
                                   isPathParam)))

resolveFieldPath(msg, path, isPathParam) ==
    IF path = <<>> THEN Ok(<<>>)
    ELSE resolveLoop(msg, msg, path, 1, <<>>, isPathParam)

\* newParam once the path is resolved into fields, target being the last one
parameter(meth, path, fields, target) ==
    IF target.Type \in Aggregate /\ ~IsWellKnownType(target.TypeName)
    THEN Fail([kind |-> "protobuf message type as path parameter",
               service |-> meth.Service, method |-> meth.Name,
               path |-> JoinDot(path)])
    ELSE Ok(Some([FieldPath |-> fields, Target |-> target]))

\* a variant that never looks at the terminal field's type
newParamAnyType(meth, path) ==
    Try(resolveFieldPath(msgs[meth.RequestType], path, TRUE),
         LAMBDA fields :
           IF Len(fields) = 0
           THEN Fail([kind |-> "invalid field access list", path |-> JoinDot(path)])
           ELSE Ok(Some([FieldPath |-> fields, Target |-> fields[Len(fields)].Target])))

\* a variant that resolves in the non-strict mode
newParamNonStrict(meth, path) ==
    Try(resolveFieldPath(msgs[meth.RequestType], path, FALSE),
         LAMBDA fields :
           IF Len(fields) = 0
           THEN Fail([kind |-> "invalid field access list", path |-> JoinDot(path)])
           ELSE parameter(meth, path, fields, fields[Len(fields)].Target))

newParam(meth, path) ==
    Try(resolveFieldPath(msgs[meth.RequestType], path, TRUE),
         LAMBDA fields :
           IF Len(fields) = 0
           THEN Fail([kind |-> "invalid field access list", path |-> JoinDot(path)])
           ELSE parameter(meth, path, fields, fields[Len(fields)].Target))

\* a variant that resolves the body path in the strict mode
newBodyStrict(meth, path) ==
    IF path = <<>> THEN Ok(Nil)
    ELSE IF path = <<"*">> THEN Ok(Some([FieldPath |-> <<>>]))
    ELSE Try(resolveFieldPath(msgs[meth.RequestType], path, TRUE),
             LAMBDA fields : Ok(Some([FieldPath |-> fields])))

newBody(meth, path) ==
    IF path = <<>> THEN Ok(Nil)
    ELSE IF path = <<"*">> THEN Ok(Some([FieldPath |-> <<>>]))
    ELSE Try(resolveFieldPath(msgs[meth.RequestType], path, FALSE),
              LAMBDA fields : Ok(Some([FieldPath |-> fields])))

newResponse(meth, path) ==
    IF path = <<>> \/ path = <<"*">> THEN Ok(Nil)
    ELSE Try(resolveFieldPath(msgs[meth.ResponseType], path, FALSE),
              LAMBDA fields : Ok(Some([FieldPath |-> fields])))

-----------------------------------------------------------------------------
(* Path templates.  A template string is the sequence of its "/"-separated *)
(* segments, each a literal or a capture group {field.path}; the empty     *)
(* string is the empty sequence.                                           *)

Lit(s) == [lit |-> s, var |-> <<>>]
Var(path) == [lit |-> "", var |-> path]

Captures(tmpl) == SelectSeq(tmpl, LAMBDA seg : seg.var # <<>>)

RECURSIVE Render(_)
Render(tmpl) ==
    IF tmpl = <<>> THEN ""
    ELSE "/" \o (IF tmpl[1].var # <<>> THEN "{" \o JoinDot(tmpl[1].var) \o "}"
                 ELSE tmpl[1].lit)
             \o Render(Tail(tmpl))

\* httprule.Parse: a template needs its leading "/" and a first segment, no
\* segment is empty, and no field path is captured twice
Parse(tmpl) ==
    IF tmpl = <<>>
    THEN Fail([kind |-> "invalid template", msg |-> "no leading /"])
    ELSE IF \E i \in 1..Len(tmpl) : tmpl[i].lit = "" /\ tmpl[i].var = <<>>
    THEN Fail([kind |-> "invalid template", msg |-> "empty segment"])
    ELSE IF \E i, j \in 1..Len(Captures(tmpl)) :
                i # j /\ Captures(tmpl)[i].var = Captures(tmpl)[j].var
    THEN Fail([kind |-> "invalid template", msg |-> "duplicate field path"])
    ELSE Ok(Some(tmpl))

\* httprule Compiler.Compile: the canonical string and the captured paths
Compile(parsed) ==
    [Template |-> Render(parsed),
     Fields   |-> [i \in 1..Len(Captures(parsed)) |-> Captures(parsed)[i].var]]

-----------------------------------------------------------------------------
(* google.api.HttpRule.  Pattern is the oneof: kind names the field that  *)
(* is set ("" when none is), path its template, verb the kind of a custom *)
(* pattern.                                                               *)

Rule(kind, path, verb, body, responseBody, additional) ==
    [Pattern |-> [kind |-> kind, path |-> path, verb |-> verb],
     Body |-> body, ResponseBody |-> responseBody,
     AdditionalBindings |-> additional]

GetGet(opts)    == IF opts.Pattern.kind = "get" THEN opts.Pattern.path ELSE <<>>
GetPut(opts)    == IF opts.Pattern.kind = "put" THEN opts.Pattern.path ELSE <<>>
GetPost(opts)   == IF opts.Pattern.kind = "post" THEN opts.Pattern.path ELSE <<>>
GetDelete(opts) == IF opts.Pattern.kind = "delete" THEN opts.Pattern.path ELSE <<>>
GetPatch(opts)  == IF opts.Pattern.kind = "patch" THEN opts.Pattern.path ELSE <<>>
GetCustom(opts) ==
    IF opts.Pattern.kind = "custom"
    THEN Some([Kind |-> opts.Pattern.verb, Path |-> opts.Pattern.path])
    ELSE Nil

-----------------------------------------------------------------------------
(* Names *)

Package == "pkg"

\* Service.FQSN and Method.FQMN
FQSN(service) == "." \o Package \o "." \o service
FQMN(service, method) == FQSN(service) \o "." \o method

ServiceName(i) == "S" \o ToString(i)
MethodName(i) == "M" \o ToString(i)

\* strings.TrimPrefix(s, "."), over the names of the model
TrimPrefixDot(s) ==
    LET rest == {t \in {Package \o "." \o ServiceName(i) : i \in 1..9} : "." \o t = s}
    IN  IF rest = {} THEN s ELSE CHOOSE t \in rest : TRUE

-----------------------------------------------------------------------------
(* services.go: the role option.  A role string is the sequence of its     *)
(* characters.                                                             *)

Lower == {"a", "b", "c", "d", "e", "f", "g", "h", "i", "j", "k", "l", "m",
          "n", "o", "p", "q", "r", "s", "t", "u", "v", "w", "x", "y", "z"}
Digit == {"0", "1", "2", "3", "4", "5", "6", "7", "8", "9"}

\* kebabCaseRegex.MatchString: ^[a-z][a-z0-9]*(-[a-z0-9]+)*$ run left to
\* right; st is "start", "word" (after a letter or digit), "dash" or "dead"
RECURSIVE kebabRun(_, _)
kebabRun(st, value) ==
    IF value = <<>> THEN st
    ELSE LET c == Head(value)
             nx == CASE st = "start" -> IF c \in Lower THEN "word" ELSE "dead"
                     [] st = "word"  -> IF c \in Lower \cup Digit THEN "word"
                                        ELSE IF c = "-" THEN "dash" ELSE "dead"
                     [] st = "dash"  -> IF c \in Lower \cup Digit THEN "word" ELSE "dead"
                     [] OTHER        -> "dead"
         IN  kebabRun(nx, Tail(value))

kebabCaseRegex(value) == kebabRun("start", value) = "word"

validateKebabCase(field, value) ==
    IF value = <<>> THEN Nil
    ELSE IF ~kebabCaseRegex(value)
    THEN Some([kind |-> "not in kebab-case format", field |-> field, value |-> value])
    ELSE Nil

\* a variant that validates the verb before the resource
extractRoleOptionsVerbFirst(md) ==
    IF md.Role = Nil THEN Ok(Nil)
    ELSE
      LET role == md.Role[1]
          wrap(e) == Fail([kind |-> "invalid role", method |-> md.Name,
                           field |-> e.field, value |-> e.value])
          badScopes == {i \in 1..Len(role.Scope) :
                           validateKebabCase("scope", role.Scope[i]) # Nil}
      IN  IF validateKebabCase("verb", role.Verb) # Nil
          THEN wrap(validateKebabCase("verb", role.Verb)[1])
          ELSE IF validateKebabCase("resource", role.Resource) # Nil
          THEN wrap(validateKebabCase("resource", role.Resource)[1])
          ELSE IF badScopes # {}
          THEN wrap(validateKebabCase("scope[" \o ToString(Min(badScopes) - 1) \o "]",
                                      role.Scope[Min(badScopes)])[1])
          ELSE Ok(Some(role))

extractRoleOptions(md) ==
    IF md.Role = Nil THEN Ok(Nil)
    ELSE
      LET role == md.Role[1]
          wrap(e) == Fail([kind |-> "invalid role", method |-> md.Name,
                           field |-> e.field, value |-> e.value])
          badScopes == {i \in 1..Len(role.Scope) :
                           validateKebabCase("scope", role.Scope[i]) # Nil}
      IN  IF validateKebabCase("resource", role.Resource) # Nil
          THEN wrap(validateKebabCase("resource", role.Resource)[1])
          ELSE IF validateKebabCase("verb", role.Verb) # Nil
          THEN wrap(validateKebabCase("verb", role.Verb)[1])
          ELSE IF badScopes # {}
          THEN wrap(validateKebabCase("scope[" \o ToString(Min(badScopes) - 1) \o "]",
                                      role.Scope[Min(badScopes)])[1])
          ELSE Ok(Some(role))

extractAPIOptions(md) == Ok(md.Http)

-----------------------------------------------------------------------------
(* services.go: newMethod and its closures *)

\* a variant that rejects a DELETE body whatever the registry's flag says
selectPatternDeleteBodyNever(md, opts) ==
    IF GetGet(opts) # <<>> THEN
        IF opts.Body # <<>>
        THEN Fail([kind |-> "must not set request body when http method is GET",
                   method |-> md.Name])
        ELSE Ok(Some([httpMethod |-> "GET", pathTemplate |-> GetGet(opts)]))
    ELSE IF GetPut(opts) # <<>> THEN
        Ok(Some([httpMethod |-> "PUT", pathTemplate |-> GetPut(opts)]))
    ELSE IF GetPost(opts) # <<>> THEN
        Ok(Some([httpMethod |-> "POST", pathTemplate |-> GetPost(opts)]))
    ELSE IF GetDelete(opts) # <<>> THEN
        IF opts.Body # <<>>
        THEN Fail([kind |-> "must not set request body when http method is DELETE",
                   method |-> md.Name])
        ELSE Ok(Some([httpMethod |-> "DELETE", pathTemplate |-> GetDelete(opts)]))
    ELSE IF GetPatch(opts) # <<>> THEN
        Ok(Some([httpMethod |-> "PATCH", pathTemplate |-> GetPatch(opts)]))
    ELSE IF GetCustom(opts) # Nil THEN
        Ok(Some([httpMethod |-> GetCustom(opts)[1].Kind,
                 pathTemplate |-> GetCustom(opts)[1].Path]))
    ELSE Ok(Nil)

\* a variant that lets a GET rule keep its body when DELETE bodies are allowed
selectPatternGetBodyByFlag(md, opts) ==
    IF GetGet(opts) # <<>> THEN
        IF opts.Body # <<>> /\ ~allowDeleteBody
        THEN Fail([kind |-> "must not set request body when http method is GET",
                   method |-> md.Name])
        ELSE Ok(Some([httpMethod |-> "GET", pathTemplate |-> GetGet(opts)]))
    ELSE IF GetPut(opts) # <<>> THEN
        Ok(Some([httpMethod |-> "PUT", pathTemplate |-> GetPut(opts)]))
    ELSE IF GetPost(opts) # <<>> THEN
        Ok(Some([httpMethod |-> "POST", pathTemplate |-> GetPost(opts)]))
    ELSE IF GetDelete(opts) # <<>> THEN
        IF opts.Body # <<>> /\ ~allowDeleteBody
        THEN Fail([kind |-> "must not set request body when http method is DELETE",
                   method |-> md.Name])
        ELSE Ok(Some([httpMethod |-> "DELETE", pathTemplate |-> GetDelete(opts)]))
    ELSE IF GetPatch(opts) # <<>> THEN
        Ok(Some([httpMethod |-> "PATCH", pathTemplate |-> GetPatch(opts)]))
    ELSE IF GetCustom(opts) # Nil THEN
        Ok(Some([httpMethod |-> GetCustom(opts)[1].Kind,
                 pathTemplate |-> GetCustom(opts)[1].Path]))
    ELSE Ok(Nil)

\* newBinding's switch: the verb and the path template of the pattern that is
\* set, nil when none is, or the GET/DELETE body error
selectPattern(md, opts) ==
    IF GetGet(opts) # <<>> THEN
        IF opts.Body # <<>>
        THEN Fail([kind |-> "must not set request body when http method is GET",
                   method |-> md.Name])
        ELSE Ok(Some([httpMethod |-> "GET", pathTemplate |-> GetGet(opts)]))
    ELSE IF GetPut(opts) # <<>> THEN
        Ok(Some([httpMethod |-> "PUT", pathTemplate |-> GetPut(opts)]))
    ELSE IF GetPost(opts) # <<>> THEN
        Ok(Some([httpMethod |-> "POST", pathTemplate |-> GetPost(opts)]))
    ELSE IF GetDelete(opts) # <<>> THEN
        IF opts.Body # <<>> /\ ~allowDeleteBody
        THEN Fail([kind |-> "must not set request body when http method is DELETE",
                   method |-> md.Name])
        ELSE Ok(Some([httpMethod |-> "DELETE", pathTemplate |-> GetDelete(opts)]))
    ELSE IF GetPatch(opts) # <<>> THEN
        Ok(Some([httpMethod |-> "PATCH", pathTemplate |-> GetPatch(opts)]))
    ELSE IF GetCustom(opts) # Nil THEN
        Ok(Some([httpMethod |-> GetCustom(opts)[1].Kind,
                 pathTemplate |-> GetCustom(opts)[1].Path]))
    ELSE Ok(Nil)

\* newBinding's loop over tmpl.Fields: the parameters, or the first error
RECURSIVE pathParams(_, _, _, _)
pathParams(meth, fields, i, acc) ==
    IF i > Len(fields) THEN Ok(acc)
    ELSE Try(newParam(meth, fields[i]),
              LAMBDA param : pathParams(meth, fields, i + 1, Append(acc, param[1])))

\* a variant that lets a client-streaming method capture path parameters
bindingOfStreamingCaptures(meth, md, opts, idx, httpMethod, tmpl) ==
    Try(pathParams(meth, tmpl.Fields, 1, <<>>), LAMBDA params :
    Try(newBody(meth, opts.Body), LAMBDA body :
    Try(newResponse(meth, opts.ResponseBody), LAMBDA resp :
        Ok(Some([Index        |-> idx,
                 PathTmpl     |-> tmpl,
                 HTTPMethod   |-> httpMethod,
                 PathParams   |-> params,
                 Body         |-> body,
                 ResponseBody |-> resp])))))

\* newBinding from the compiled template on
bindingOf(meth, md, opts, idx, httpMethod, tmpl) ==
    IF md.ClientStreaming /\ Len(tmpl.Fields) > 0
    THEN Fail([kind |-> "cannot use path parameter in client streaming"])
    ELSE Try(pathParams(meth, tmpl.Fields, 1, <<>>), LAMBDA params :
         Try(newBody(meth, opts.Body), LAMBDA body :
         Try(newResponse(meth, opts.ResponseBody), LAMBDA resp :
              Ok(Some([Index        |-> idx,
                       PathTmpl     |-> tmpl,
                       HTTPMethod   |-> httpMethod,
                       PathParams   |-> params,
                       Body         |-> body,
                       ResponseBody |-> resp])))))

\* newBinding: nil and no error when no pattern is set
newBinding(meth, md, opts, idx) ==
    Try(selectPattern(md, opts), LAMBDA sel :
         IF sel = Nil THEN Ok(Nil)
         ELSE Try(Parse(sel[1].pathTemplate), LAMBDA parsed :
                   bindingOf(meth, md, opts, idx, sel[1].httpMethod,
                             Compile(parsed[1]))))

\* a variant that takes nested additional_bindings as they come
RECURSIVE additionalLoopNestedAllowed(_, _, _, _, _)
additionalLoopNestedAllowed(meth, md, additional, i, bindings) ==
    IF i > Len(additional) THEN Ok(bindings)
    ELSE Try(newBinding(meth, md, additional[i], Len(bindings)),
              LAMBDA b : additionalLoopNestedAllowed(meth, md, additional, i + 1,
                                                     Append(bindings, b)))

\* applyOpts' loop over opts.GetAdditionalBindings(), from entry i on; bindings
\* is meth.Bindings so far.  What newBinding returned is appended as it is.
RECURSIVE additionalLoop(_, _, _, _, _)
additionalLoop(meth, md, additional, i, bindings) ==
    IF i > Len(additional) THEN Ok(bindings)
    ELSE IF Len(additional[i].AdditionalBindings) > 0
    THEN Fail([kind |-> "additional_binding in additional_binding not allowed",
               service |-> meth.Service, method |-> meth.Name])
    ELSE Try(newBinding(meth, md, additional[i], Len(bindings)),
              LAMBDA b : additionalLoop(meth, md, additional, i + 1,
                                        Append(bindings, b)))

\* applyOpts: meth.Bindings after the rule opts, or the error.  An entry of
\* the list is a *Binding: nil or one binding.
applyOpts(meth, md, opts, bindings) ==
    Try(newBinding(meth, md, opts, Len(bindings)),
         LAMBDA b : additionalLoop(meth, md, opts.AdditionalBindings, 1,
                                   IF b # Nil THEN Append(bindings, b) ELSE bindings))

\* newMethod's loop over optsList
RECURSIVE applyAll(_, _, _, _, _)
applyAll(meth, md, optsList, i, bindings) ==
    IF i > Len(optsList) THEN Ok(bindings)
    ELSE Try(applyOpts(meth, md, optsList[i], bindings),
              LAMBDA bs : applyAll(meth, md, optsList, i + 1, bs))

\* newMethod once the request and the response type are found
methodOf(meth, md, optsList) ==
    Try(applyAll(meth, md, optsList, 1, <<>>),
         LAMBDA bs : Ok(Some([meth EXCEPT !.Bindings = bs])))

newMethod(service, md, optsList, role) ==
    Try(LookupMsg(Package, md.InputType), LAMBDA requestType :
    Try(LookupMsg(Package, md.OutputType), LAMBDA responseType :
         methodOf([Service         |-> service,
                   Name            |-> md.Name,
                   ClientStreaming |-> md.ClientStreaming,
                   RequestType     |-> requestType[1].FQMN,
                   ResponseType    |-> responseType[1].FQMN,
                   Role            |-> role,
                   Bindings        |-> <<>>],
                  md, optsList)))

\* a variant that leaves the leading dot of the FQSN in the path
defaultAPIOptionsUntrimmed(service, md) ==
    Ok(Some(Rule("post", <<Lit(FQSN(service)), Lit(md.Name)>>, "", <<"*">>, <<>>, <<>>)))

\* the rule of a method no rule names: POST /<service>/<method> with body "*"
defaultAPIOptions(service, md) ==
    LET fqsn == TrimPrefixDot(FQSN(service))
    IN  Ok(Some(Rule("post", <<Lit(fqsn), Lit(md.Name)>>, "", <<"*">>, <<>>, <<>>)))

-----------------------------------------------------------------------------
(* Single calls of the resolver functions.  InitCall draws a request message *)
(* and a field path; each action applies one function to them and keeps     *)
(* what it returned.                                                         *)

Paths == UNION {[1..k -> FieldNames] : k \in 0..MaxPathLen} \cup {<<"*">>}

Roots == {".pkg.Req", ".pkg.Sub", ".pkg.Resp"}

Ops == {"resolveFieldPath/strict", "resolveFieldPath/loose", "newParam",
        "newBody", "newResponse"}

\* the method the calls are made for
callMeth == [Service |-> "S1", Name |-> "M1", RequestType |-> call.msg,
             ResponseType |-> call.msg]

\* Generate has not been called
NotGenerating ==
    /\ targets = <<>>
    /\ ntarget = 0
    /\ files = <<>>
    /\ genRet = Nil

Idle ==
    /\ NotGenerating
    /\ generateUnboundMethods = FALSE
    /\ allowDeleteBody = FALSE
    /\ svcs = <<>>
    /\ svc = <<>>
    /\ nsvc = 0
    /\ meths = <<>>
    /\ fileServices = Nil
    /\ loadErr = Nil
    /\ lastCall = Nil
    /\ lastRet = Nil
    /\ annotationMap = {}
    /\ emit = Nil

InitCall ==
    /\ Idle
    /\ pc = "call"
    /\ call \in [msg : Roots, path : Paths]
    /\ ret = [op \in Ops |-> Nil]

Return(op, r) ==
    /\ pc = "call"
    /\ ret[op] = Nil
    /\ ret' = [ret EXCEPT ![op] = Some(r)]
    /\ UNCHANGED <<pc, call, loadVars, genVars>>

CallResolveFieldPath ==
    \E isPathParam \in BOOLEAN :
        Return(IF isPathParam THEN "resolveFieldPath/strict" ELSE "resolveFieldPath/loose",
               resolveFieldPath(msgs[call.msg], call.path, isPathParam))

CallNewParam == Return("newParam", newParam(callMeth, call.path))

CallNewBody == Return("newBody", newBody(callMeth, call.path))

CallNewResponse == Return("newResponse", newResponse(callMeth, call.path))

NextCall ==
    \/ CallResolveFieldPath
    \/ CallNewParam
    \/ CallNewBody
    \/ CallNewResponse

SpecCall == InitCall /\ [][NextCall]_vars

-----------------------------------------------------------------------------
(* protoc-gen-sdk template.go: the emitter *)

\* FieldPath.String: the component names joined by "."
FieldPathString(fp) == JoinDot([i \in 1..Len(fp) |-> fp[i].Name])

RequestFieldNames(m) ==
    [i \in 1..Len(msgs[m.RequestType].Fields) |-> msgs[m.RequestType].Fields[i].Name]

\* a variant that forgets to take the path parameters out
getQueryParamsKeepsPathParams(m) ==
    IF Len(m.Bindings) = 0 THEN <<>>
    ELSE
      LET b == m.Bindings[1][1]
          all == {RequestFieldNames(m)[i] : i \in 1..Len(RequestFieldNames(m))}
          fields == IF b.Body # Nil THEN all \ {FieldPathString(b.Body[1].FieldPath)}
                    ELSE all
      IN  IF b.Body # Nil /\ Len(b.Body[1].FieldPath) = 0 THEN <<>>
          ELSE SelectSeq(RequestFieldNames(m), LAMBDA val : val \in fields)

\* getQueryParams, for a method whose first binding is not nil (the template
\* calls it only after it has read that binding)
getQueryParams(m) ==
    IF Len(m.Bindings) = 0 THEN <<>>
    ELSE
      LET b == m.Bindings[1][1]
          all == {RequestFieldNames(m)[i] : i \in 1..Len(RequestFieldNames(m))}
          noBody == IF b.Body # Nil THEN all \ {FieldPathString(b.Body[1].FieldPath)}
                    ELSE all
          fields == noBody \ {FieldPathString(b.PathParams[i].FieldPath) :
                                 i \in 1..Len(b.PathParams)}
      IN  IF b.Body # Nil /\ Len(b.Body[1].FieldPath) = 0 THEN <<>>
          ELSE SelectSeq(RequestFieldNames(m), LAMBDA val : val \in fields)

\* Registry.CheckDuplicateAnnotation: a (verb, template, service) triple seen
\* before is an error, a new one is recorded
CheckDuplicateAnnotation(httpMethod, httpTemplate, service, amap) ==
    LET a == [method |-> httpMethod, pathTemplate |-> httpTemplate, service |-> service]
    IN  IF a \in amap
        THEN [err |-> Some([kind |-> "duplicate annotation", method |-> httpMethod,
                            template |-> httpTemplate]),
              amap |-> amap]
        ELSE [err |-> Nil, amap |-> amap \cup {a}]

\* the bindings in the order applyTemplate's three nested loops visit them
RECURSIVE MethodItems(_, _)
MethodItems(service, methods) ==
    IF methods = <<>> THEN <<>>
    ELSE [i \in 1..Len(Head(methods).Bindings) |->
             [service |-> service.Name, method |-> Head(methods).Name,
              b |-> Head(methods).Bindings[i]]]
         \o MethodItems(service, Tail(methods))

RECURSIVE WalkItems(_)
WalkItems(services) ==
    IF services = <<>> THEN <<>>
    ELSE MethodItems(Head(services), Head(services).Methods) \o WalkItems(Tail(services))

\* a variant that drops the error of CheckDuplicateAnnotation
walkStepIgnoringError(chk) == [status |-> "ok", err |-> Nil, amap |-> chk.amap]

\* applyTemplate's walk after one CheckDuplicateAnnotation: its error ends it
walkStep(chk) ==
    IF chk.err # Nil THEN [status |-> "error", err |-> chk.err, amap |-> chk.amap]
    ELSE [status |-> "ok", err |-> Nil, amap |-> chk.amap]

\* applyTemplate's walk from item i on, w being how far it got: it ends at
\* the first duplicate with the error, and at a nil binding with the panic
\* of reading b.HTTPMethod
RECURSIVE walk(_, _, _)
walk(items, i, w) ==
    IF i > Len(items) \/ w.status # "ok" THEN w
    ELSE IF items[i].b = Nil
    THEN [status |-> "panic", err |-> Some([kind |-> "nil pointer dereference"]),
          amap |-> w.amap]
    ELSE walk(items, i + 1,
              walkStep(CheckDuplicateAnnotation(items[i].b[1].HTTPMethod,
                                                items[i].b[1].PathTmpl.Template,
                                                items[i].service, w.amap)))

\* rtemplate's text for one method: {{index $m.Bindings 0}} fails on a method
\* without bindings, and reading a field of a nil binding fails
renderMethod(m) ==
    IF Len(m.Bindings) = 0
    THEN Fail([kind |-> "template: error calling index: index out of range",
               method |-> m.Name])
    ELSE IF m.Bindings[1] = Nil
    THEN Fail([kind |-> "template: nil pointer evaluating *descriptor.Binding.PathTmpl",
               method |-> m.Name])
    ELSE Ok([Name       |-> m.Name,
             uri        |-> m.Bindings[1][1].PathTmpl.Template,
             HTTPMethod |-> m.Bindings[1][1].HTTPMethod,
             PathParams |-> [i \in 1..Len(m.Bindings[1][1].PathParams) |->
                                m.Bindings[1][1].PathParams[i].Target.Name],
             withBody   |-> m.Bindings[1][1].Body # Nil,
             qList      |-> getQueryParams(m)])

\* rtemplate.Execute over the target services: the text, or the first error
RECURSIVE renderMethods(_, _, _)
renderMethods(methods, i, acc) ==
    IF i > Len(methods) THEN Ok(acc)
    ELSE Try(renderMethod(methods[i]),
              LAMBDA text : renderMethods(methods, i + 1, Append(acc, text)))

RECURSIVE renderServices(_, _, _)
renderServices(services, i, acc) ==
    IF i > Len(services) THEN Ok(acc)
    ELSE Try(renderMethods(services[i].Methods, 1, <<>>),
              LAMBDA text : renderServices(services, i + 1,
                                Append(acc, [Name |-> services[i].Name, Methods |-> text])))

errNoTargetService == [kind |-> "no target service defined in the file"]

\* applyTemplate after its walk w: the services with a binding are rendered
emitted(targetServices, w, text) ==
    IF w.status # "ok"
    THEN [status |-> w.status, err |-> w.err, code |-> Nil, amap |-> w.amap]
    ELSE IF Len(targetServices) = 0
    THEN [status |-> "error", err |-> Some(errNoTargetService), code |-> Nil,
          amap |-> w.amap]
    ELSE IF IsErr(text)
    THEN [status |-> "error", err |-> text.err, code |-> Nil, amap |-> w.amap]
    ELSE [status |-> "ok", err |-> Nil, code |-> Some(text.val), amap |-> w.amap]

targetServicesOf(services) ==
    SelectSeq(services, LAMBDA sv :
        \E i \in 1..Len(sv.Methods) : Len(sv.Methods[i].Bindings) > 0)

\* applyTemplate(p, reg) for the file whose Services are services: what it
\* returns (code, or err), or that it panicked, and the annotation map after
applyTemplate(services, amap) ==
    emitted(targetServicesOf(services),
            walk(WalkItems(services), 1, [status |-> "ok", err |-> Nil, amap |-> amap]),
            renderServices(targetServicesOf(services), 1, <<>>))

-----------------------------------------------------------------------------
(* The input alphabets: the rules and method descriptors a file may hold. *)

TPlain == <<Lit("a")>>
TId    == <<Lit("a"), Var(<<"id">>)>>
TSubId == <<Lit("a"), Var(<<"sub", "id">>)>>
TSub   == <<Lit("a"), Var(<<"sub">>)>>

NoPattern == [kind |-> "", path |-> <<>>, verb |-> ""]

Patterns(kinds, templates) ==
    {NoPattern}
      \cup {[kind |-> k, path |-> t, verb |-> ""] : k \in kinds \ {"custom"}, t \in templates}
      \cup {[kind |-> k, path |-> t, verb |-> "GET"] : k \in kinds \cap {"custom"}, t \in templates}

Rules(patterns, bodies, additionals) ==
    {[Pattern |-> pt, Body |-> b, ResponseBody |-> <<>>, AdditionalBindings |-> a] :
        pt \in patterns, b \in bodies, a \in additionals}

AllKinds == {"get", "put", "post", "delete", "patch", "custom"}

\* the entries an additional_bindings list is drawn from; the last two carry
\* additional_bindings of their own
AdditionalRules ==
    Rules(Patterns({"get", "delete"}, {TPlain}) \cup
              {[kind |-> "get", path |-> TId, verb |-> ""]},
          {<<>>, <<"*">>}, {<<>>})
      \cup Rules({NoPattern, [kind |-> "post", path |-> TPlain, verb |-> ""]}, {<<>>},
                 {<<Rule("get", TPlain, "", <<>>, <<>>, <<>>)>>})

\* most entries in one additional_bindings list
MaxAdditional == 1

AdditionalLists == UNION {[1..k -> AdditionalRules] : k \in 0..MaxAdditional}

\* the rules of the one-method file: every pattern kind with and without a
\* template and a capture, every kind of body, and up to MaxAdditional
\* additional bindings; and rules with a response body
MethodRules ==
    Rules(Patterns(AllKinds, {<<>>, TPlain, TId}), {<<>>, <<"*">>, <<"id">>},
          AdditionalLists)
      \cup {Rule("post", TPlain, "", b, rb, <<>>) :
               b \in {<<"*">>, <<"zz">>}, rb \in {<<"id">>, <<"*">>, <<"zz">>}}
      \cup {Rule("get", t, "", <<>>, <<>>, <<>>) : t \in {TSubId, TSub}}

\* the rule lists registered from outside for a method
ExternalLists ==
    {<<>>} \cup {<<e>> : e \in {Rule("post", TPlain, "", <<"*">>, <<>>, <<>>),
                               Rule("get", TSubId, "", <<>>, <<>>, <<>>),
                               Rule("", <<>>, "", <<>>, <<>>, <<>>)}}

MD(name, in, out, streaming, http, role) ==
    [Name |-> name, InputType |-> in, OutputType |-> out,
     ClientStreaming |-> streaming, Http |-> http, Role |-> role]

GoodRole == [Resource |-> <<"a", "-", "b", "1">>, Verb |-> <<>>, Scope |-> << <<"c">> >>]
BadRole  == [Resource |-> <<"a">>, Verb |-> <<"a", "-">>, Scope |-> << <<"C">> >>]

\* a method of the one-method file, and the rules registered for it: any
\* rule of its own, or one without additional bindings next to an outside one
MethodInputs ==
    {[md |-> MD("", ".pkg.Req", ".pkg.Resp", cs, http, Nil), ext |-> <<>>] :
        cs \in BOOLEAN, http \in {Nil} \cup {Some(r) : r \in MethodRules}}
      \cup {[md |-> MD("", ".pkg.Req", ".pkg.Resp", cs, http, Nil), ext |-> ext] :
               cs \in BOOLEAN,
               http \in {Nil} \cup {Some(r) : r \in {r \in MethodRules :
                                                      r.AdditionalBindings = <<>>}},
               ext \in ExternalLists}

\* the rules of a file of several methods
FileRules ==
    Rules(Patterns({"get", "post"}, {TPlain}), {<<>>, <<"*">>},
          {<<>>, <<Rule("", <<>>, "", <<>>, <<>>, <<>>)>>,
           <<Rule("get", TPlain, "", <<>>, <<>>, <<>>)>>})

\* a method of a file of several methods: one with any of FileRules or no
\* rule, one with a role, one whose request type is not registered, one with
\* a rule registered from outside
FileInputs ==
    {[md |-> MD("", ".pkg.Req", ".pkg.Resp", FALSE, http, Nil), ext |-> <<>>] :
        http \in {Nil} \cup {Some(r) : r \in FileRules}}
      \cup {[md |-> MD("", ".pkg.Req", ".pkg.Resp", FALSE, Nil, Some(role)), ext |-> <<>>] :
               role \in {GoodRole, BadRole}}
      \cup {[md |-> MD("", ".pkg.Ghost", ".pkg.Resp", FALSE, Nil, Nil), ext |-> <<>>],
            [md |-> MD("", ".pkg.Req", ".pkg.Resp", TRUE, Nil, Nil),
             ext |-> <<Rule("get", TId, "", <<>>, <<>>, <<>>)>>]}

-----------------------------------------------------------------------------
(* loadServices over one file, then applyTemplate over what it loaded.     *)
(* The file's services and methods are drawn as the loops reach them.      *)

InitLoad ==
    /\ NotGenerating
    /\ generateUnboundMethods \in BOOLEAN
    /\ allowDeleteBody \in BOOLEAN
    /\ pc = "load"
    /\ svcs = <<>>
    /\ svc = Nil
    /\ nsvc = 0
    /\ meths = <<>>
    /\ fileServices = Nil
    /\ loadErr = Nil
    /\ lastCall = Nil
    /\ lastRet = Nil
    /\ annotationMap = {}
    /\ emit = Nil
    /\ call = [msg |-> ".pkg.Req", path |-> <<>>]
    /\ ret = [op \in Ops |-> Nil]

\* svcs once the service being filled is closed: a service without methods
\* is skipped
Closed == IF svc = Nil \/ Len(svc[1].Methods) = 0 THEN svcs ELSE Append(svcs, svc[1])

\* a variant that puts the method's own rule before the registered ones
optsListOfInlineFirst(service, md, ext) ==
    IF Len(ext \o extractAPIOptions(md).val) = 0 /\ generateUnboundMethods
    THEN <<defaultAPIOptions(service, md).val[1]>>
    ELSE extractAPIOptions(md).val \o ext

\* a variant that gives a method without rules the default rule whatever the flag
optsListOfAlwaysDefault(service, md, ext) ==
    IF Len(ext \o extractAPIOptions(md).val) = 0
    THEN <<defaultAPIOptions(service, md).val[1]>>
    ELSE ext \o extractAPIOptions(md).val

\* the rule lists of a method: those registered from outside, then its own,
\* and the default rule when there is none and default generation is on
optsListOf(service, md, ext) ==
    IF Len(ext \o extractAPIOptions(md).val) = 0 /\ generateUnboundMethods
    THEN <<defaultAPIOptions(service, md).val[1]>>
    ELSE ext \o extractAPIOptions(md).val

\* one round of loadServices' loop over sd.GetMethod(): the error of the
\* role option or of newMethod, or the method
loadMethod(service, md, ext) ==
    Try(extractRoleOptions(md),
         LAMBDA role : newMethod(service, md, optsListOf(service, md, ext), role))

\* ... and what the round does with it
Loaded(service, md, ext, r) ==
    /\ lastCall' = Some([service |-> service, md |-> md, ext |-> ext])
    /\ lastRet' = Some(r)
    /\ IF IsErr(r)
       THEN /\ pc' = "failed"
            /\ loadErr' = r.err
            /\ UNCHANGED <<svc, meths>>
       ELSE /\ svc' = Some([svc[1] EXCEPT !.Methods = Append(@, r.val[1])])
            /\ meths' = [k \in DOMAIN meths \cup {FQMN(service, md.Name)} |->
                            IF k = FQMN(service, md.Name) THEN r.val[1] ELSE meths[k]]
            /\ UNCHANGED <<pc, loadErr>>

Named(md, name) == [md EXCEPT !.Name = name]

LoadMethod(inputs, limit) ==
    /\ pc = "load"
    /\ svc # Nil
    /\ Cardinality(DOMAIN meths) < limit
    /\ \E in \in inputs :
         Loaded(svc[1].Name, Named(in.md, MethodName(Len(svc[1].Methods) + 1)), in.ext,
                loadMethod(svc[1].Name,
                           Named(in.md, MethodName(Len(svc[1].Methods) + 1)), in.ext))
    /\ UNCHANGED <<generateUnboundMethods, allowDeleteBody, svcs, nsvc, fileServices,
                   annotationMap, emit, callVars,
                   genVars>>

\* loadServices' loop over file.GetService() moves to the next service
NextService ==
    /\ pc = "load"
    /\ nsvc < MaxServices
    /\ svcs' = Closed
    /\ nsvc' = nsvc + 1
    /\ svc' = Some([Name |-> ServiceName(nsvc + 1), Methods |-> <<>>])
    /\ UNCHANGED <<generateUnboundMethods, allowDeleteBody, pc, meths, fileServices,
                   loadErr, lastCall, lastRet, annotationMap, emit, callVars,
                   genVars>>

\* the loops are over: file.Services = svcs
FinishLoad ==
    /\ pc = "load"
    /\ svcs' = Closed
    /\ fileServices' = Some(Closed)
    /\ svc' = Nil
    /\ pc' = "loaded"
    /\ UNCHANGED <<generateUnboundMethods, allowDeleteBody, nsvc, meths, loadErr,
                   lastCall, lastRet, annotationMap, emit, callVars,
                   genVars>>

Emitted(r) ==
    /\ emit' = Some([status |-> r.status, err |-> r.err, code |-> r.code])
    /\ annotationMap' = r.amap

\* generator.generate: applyTemplate on the loaded file
ApplyTemplate ==
    /\ pc = "loaded"
    /\ Emitted(applyTemplate(fileServices[1], annotationMap))
    /\ pc' = "done"
    /\ UNCHANGED <<generateUnboundMethods, allowDeleteBody, svcs, svc, nsvc, meths,
                   fileServices, loadErr, lastCall, lastRet, callVars,
                   genVars>>

\* a file of up to MaxServices services and MaxMethods methods
Next ==
    \/ LoadMethod(FileInputs, MaxMethods)
    \/ NextService
    \/ FinishLoad
    \/ ApplyTemplate

Spec == InitLoad /\ [][Next]_vars

\* a file of one method, with any rule
NextMethod ==
    \/ LoadMethod(MethodInputs, 1)
    \/ NextService
    \/ FinishLoad
    \/ ApplyTemplate

SpecMethod == InitLoad /\ [][NextMethod]_vars

-----------------------------------------------------------------------------
(* The plugin run: loadServices over each file of the request, then        *)
(* generator.Generate over the files loaded.  A file is its Services.      *)

\* most files in a request
MaxFiles == 2

\* the registry goes on to load the next file of the request
NextFile ==
    /\ pc = "loaded"
    /\ Len(targets) + 1 < MaxFiles
    /\ targets' = Append(targets, fileServices[1])
    /\ svcs' = <<>>
    /\ svc' = Nil
    /\ fileServices' = Nil
    /\ pc' = "load"
    /\ UNCHANGED <<generateUnboundMethods, allowDeleteBody, nsvc, meths, loadErr,
                   lastCall, lastRet, annotationMap, emit, callVars, ntarget, files,
                   genRet>>

\* main: every file is loaded, and Generate is called with them
StartGenerate ==
    /\ pc = "loaded"
    /\ targets' = Append(targets, fileServices[1])
    /\ pc' = "generate"
    /\ UNCHANGED <<generateUnboundMethods, allowDeleteBody, svcs, svc, nsvc, meths,
                   fileServices, loadErr, lastCall, lastRet, annotationMap, emit,
                   callVars, ntarget, files, genRet>>

\* a variant that hands back the files generated before the failing target
generateFailedKeepsFiles(fs, err) == [files |-> Some(fs), err |-> err]

\* Generate's "return nil, err", fs being the files generated so far
generateFailed(fs, err) == [files |-> Nil, err |-> err]

\* one round of Generate's loop after generate(file) returned r: no target
\* service skips the file, another error ends Generate, and so does the
\* error of format.Source (formatted tells whether it accepts the code);
\* otherwise the file is appended.  A panic of applyTemplate ends the run.
Generated(r, formatted) ==
    /\ emit' = Some([status |-> r.status, err |-> r.err, code |-> r.code])
    /\ annotationMap' = r.amap
    /\ IF r.status = "panic"
       THEN /\ pc' = "panicked"
            /\ UNCHANGED <<ntarget, files, genRet>>
       ELSE IF r.status = "error" /\ r.err = Some(errNoTargetService)
       THEN /\ ntarget' = ntarget + 1
            /\ UNCHANGED <<pc, files, genRet>>
       ELSE IF r.status = "error"
       THEN /\ genRet' = Some(generateFailed(files, r.err))
            /\ pc' = "done"
            /\ UNCHANGED <<ntarget, files>>
       ELSE IF ~formatted
       THEN /\ genRet' = Some(generateFailed(files, Some([kind |-> "format.Source"])))
            /\ pc' = "done"
            /\ UNCHANGED <<ntarget, files>>
       ELSE /\ files' = Append(files, [Target |-> ntarget + 1, Content |-> r.code[1]])
            /\ ntarget' = ntarget + 1
            /\ UNCHANGED <<pc, genRet>>

GenerateFile ==
    /\ pc = "generate"
    /\ ntarget < Len(targets)
    /\ \E formatted \in BOOLEAN :
          Generated(applyTemplate(targets[ntarget + 1], annotationMap), formatted)
    /\ UNCHANGED <<generateUnboundMethods, allowDeleteBody, svcs, svc, nsvc, meths,
                   fileServices, loadErr, lastCall, lastRet, callVars, targets>>

\* Generate's "return files, nil"
GenerateReturn ==
    /\ pc = "generate"
    /\ ntarget = Len(targets)
    /\ genRet' = Some([files |-> Some(files), err |-> Nil])
    /\ pc' = "done"
    /\ UNCHANGED <<generateUnboundMethods, allowDeleteBody, svcs, svc, nsvc, meths,
                   fileServices, loadErr, lastCall, lastRet, annotationMap, emit,
                   callVars, targets, ntarget, files>>

\* the methods of the files of a request: one without a rule, one with a
\* rule, one whose two bindings share a route, one with a pattern-less
\* additional binding, one whose rule is rejected, one whose role is
RunRules ==
    {Rule("post", TPlain, "", <<"*">>, <<>>, <<>>),
     Rule("get", TPlain, "", <<>>, <<>>, <<Rule("get", TPlain, "", <<>>, <<>>, <<>>)>>),
     Rule("post", TPlain, "", <<>>, <<>>, <<Rule("", <<>>, "", <<>>, <<>>, <<>>)>>),
     Rule("get", TPlain, "", <<"*">>, <<>>, <<>>)}

RunInputs ==
    {[md |-> MD("", ".pkg.Req", ".pkg.Resp", FALSE, http, Nil), ext |-> <<>>] :
        http \in {Nil} \cup {Some(r) : r \in RunRules}}
      \cup {[md |-> MD("", ".pkg.Req", ".pkg.Resp", FALSE, Nil, Some(BadRole)), ext |-> <<>>]}

NextGenerate ==
    \/ LoadMethod(RunInputs, MaxMethods)
    \/ NextService
    \/ FinishLoad
    \/ NextFile
    \/ StartGenerate
    \/ GenerateFile
    \/ GenerateReturn

SpecGenerate == InitLoad /\ [][NextGenerate]_vars

-----------------------------------------------------------------------------
(* Single calls of extractRoleOptions.  InitRole draws a method with or     *)
(* without a role annotation; the action extracts the role.                 *)

\* longest resource string, and most scope entries, of a role
MaxRoleLen == 4
MaxScopes == 2

RoleChars == {"a", "1", "-", "A"}

RoleStrings == UNION {[1..k -> RoleChars] : k \in 0..MaxRoleLen}

RoleVerbs == {<<>>, <<"a", "-", "b">>, <<"a", "-">>, <<"1">>}

RoleScopes == UNION {[1..k -> {<<>>, <<"c">>, <<"C">>}] : k \in 0..MaxScopes}

Roles == [Resource : RoleStrings, Verb : RoleVerbs, Scope : RoleScopes]

InitRole ==
    /\ Idle
    /\ pc = "role"
    /\ call \in {[md |-> MD("M1", ".pkg.Req", ".pkg.Resp", FALSE, Nil, role)] :
                    role \in {Nil} \cup {Some(r) : r \in Roles}}
    /\ ret = Nil

CallExtractRoleOptions ==
    /\ pc = "role"
    /\ ret = Nil
    /\ ret' = Some(extractRoleOptions(call.md))
    /\ UNCHANGED <<pc, call, loadVars, genVars>>

NextRole == CallExtractRoleOptions

SpecRole == InitRole /\ [][NextRole]_vars

-----------------------------------------------------------------------------
(* The last round of loadServices' method loop: the method it was given,    *)
(* the rules it was given for it, and what came of it.                      *)

Ruled == lastCall # Nil

\* the rules of the method as the file and the registry state them
StatedRules == lastCall[1].ext \o lastCall[1].md.Http

\* a rule and the entries of its additional_bindings, each a rule option set
OptionSets(rule) == {rule} \cup {rule.AdditionalBindings[i] : i \in 1..Len(rule.AdditionalBindings)}

StatedOptionSets == UNION {OptionSets(StatedRules[i]) : i \in 1..Len(StatedRules)}

NamesOf(fp) == [i \in 1..Len(fp) |-> fp[i].Name]

\* the round ended loadServices with an error and left no method behind
Rejected ==
    /\ IsErr(lastRet[1])
    /\ lastRet[1].val = Nil
    /\ pc = "failed"
    /\ loadErr = lastRet[1].err
    /\ FQMN(lastCall[1].service, lastCall[1].md.Name) \notin DOMAIN meths
    /\ svc # Nil
    /\ \A i \in 1..Len(svc[1].Methods) : svc[1].Methods[i].Name # lastCall[1].md.Name

\* C1: a method with no externally registered rule and no inline rule, loaded
\* with generateUnboundMethods on, gets exactly one binding: POST, the path
\* template "/<FQSN without its leading dot>/<method name>", and a body whose
\* field path is empty.
C1_DefaultRuleGivesOnePostBinding ==
    (Ruled /\ generateUnboundMethods /\ StatedRules = <<>>
       /\ lastCall[1].md.Role = Nil
       /\ {lastCall[1].md.InputType, lastCall[1].md.OutputType} \subseteq DOMAIN msgs) =>
      /\ ~IsErr(lastRet[1])
      /\ FQMN(lastCall[1].service, lastCall[1].md.Name) \in DOMAIN meths
      /\ LET m == meths[FQMN(lastCall[1].service, lastCall[1].md.Name)]
         IN  /\ m = lastRet[1].val[1]
             /\ Len(m.Bindings) = 1
             /\ m.Bindings[1] # Nil
             /\ m.Bindings[1][1].HTTPMethod = "POST"
             /\ m.Bindings[1][1].PathTmpl.Template =
                    "/" \o Package \o "." \o lastCall[1].service \o "/" \o lastCall[1].md.Name
             /\ m.Bindings[1][1].PathParams = <<>>
             /\ m.Bindings[1][1].Body # Nil
             /\ m.Bindings[1][1].Body[1].FieldPath = <<>>

C1_Witness ==
    /\ Ruled /\ generateUnboundMethods /\ StatedRules = <<>>
    /\ ~IsErr(lastRet[1])
    /\ Len(lastRet[1].val[1].Bindings) = 1
    /\ lastRet[1].val[1].Bindings[1][1].PathTmpl.Template = "/pkg.S1/M1"

\* C2: a rule option set whose GET pattern is set (non-empty) and whose body
\* is non-empty, primary or additional binding, external or inline, makes
\* newMethod return an error and no Method, whatever the flags are.
C2_GetWithBodyRejected ==
    (Ruled /\ \E o \in StatedOptionSets : GetGet(o) # <<>> /\ o.Body # <<>>) => Rejected

\* with DELETE bodies allowed, an additional binding GET with a body, after a
\* primary rule that is in order
C2_Witness ==
    /\ Ruled /\ allowDeleteBody /\ lastCall[1].ext = <<>> /\ lastCall[1].md.Http # Nil
    /\ LET rule == lastCall[1].md.Http[1]
       IN  /\ GetPost(rule) # <<>>
           /\ Len(rule.AdditionalBindings) = 1
           /\ GetGet(rule.AdditionalBindings[1]) # <<>>
           /\ rule.AdditionalBindings[1].Body = <<"*">>
    /\ Rejected
    /\ lastRet[1].err[1].kind = "must not set request body when http method is GET"

\* the method has one rule, a DELETE with a body, and nothing else about the
\* rule is out of order
LoneDeleteWithBody ==
    /\ Ruled /\ Len(StatedRules) = 1
    /\ lastCall[1].md.Role = Nil
    /\ GetDelete(StatedRules[1]) # <<>>
    /\ StatedRules[1].Body \in {<<"*">>, <<"id">>}
    /\ StatedRules[1].ResponseBody = <<>>
    /\ StatedRules[1].AdditionalBindings = <<>>
    /\ ~(lastCall[1].md.ClientStreaming /\ Captures(GetDelete(StatedRules[1])) # <<>>)

\* C3: a DELETE rule with a non-empty body is rejected exactly when
\* allowDeleteBody is false; when it is true the rule is accepted and its
\* binding carries the resolved body.
C3_DeleteBodyByFlag ==
    /\ (Ruled /\ ~allowDeleteBody
          /\ \E o \in StatedOptionSets : GetDelete(o) # <<>> /\ o.Body # <<>>) => Rejected
    /\ (Ruled /\ allowDeleteBody /\ IsErr(lastRet[1])) =>
          lastRet[1].err[1].kind # "must not set request body when http method is DELETE"
    /\ LoneDeleteWithBody =>
          IF allowDeleteBody
          THEN /\ ~IsErr(lastRet[1])
               /\ Len(lastRet[1].val[1].Bindings) = 1
               /\ lastRet[1].val[1].Bindings[1] # Nil
               /\ LET b == lastRet[1].val[1].Bindings[1][1]
                  IN  /\ b.HTTPMethod = "DELETE"
                      /\ b.Body # Nil
                      /\ NamesOf(b.Body[1].FieldPath) =
                            (IF StatedRules[1].Body = <<"*">> THEN <<>> ELSE StatedRules[1].Body)
                      /\ \A i \in 1..Len(b.Body[1].FieldPath) :
                            b.Body[1].FieldPath[i].Target.Message = lastCall[1].md.InputType
          ELSE /\ Rejected
               /\ lastRet[1].err[1].kind =
                      "must not set request body when http method is DELETE"

\* a DELETE rule whose body names a field, accepted
C3_Witness ==
    /\ LoneDeleteWithBody /\ allowDeleteBody
    /\ StatedRules[1].Body = <<"id">>
    /\ ~IsErr(lastRet[1])
    /\ lastRet[1].val[1].Bindings[1][1].Body[1].FieldPath[1].Target.Name = "id"

Nested(rule) ==
    {i \in 1..Len(rule.AdditionalBindings) :
        Len(rule.AdditionalBindings[i].AdditionalBindings) > 0}

HasNested == {i \in 1..Len(StatedRules) : Nested(StatedRules[i]) # {}}

\* the rules up to the first entry that declares additional_bindings of its own
BeforeNested ==
    LET r == Min(HasNested)
    IN  SubSeq(StatedRules, 1, r - 1) \o
        <<[StatedRules[r] EXCEPT !.AdditionalBindings =
              SubSeq(@, 1, Min(Nested(StatedRules[r])) - 1)]>>

\* C4: a rule whose additional_bindings hold an entry that itself declares
\* additional_bindings is rejected: newMethod returns an error, which names
\* the service and the method when nothing before that entry is at fault,
\* and the method is neither appended to the service's Methods nor entered
\* in the registry's method table.
C4_NestedAdditionalRejected ==
    (Ruled /\ HasNested # {} /\ lastCall[1].md.Role = Nil) =>
      /\ Rejected
      /\ ~IsErr(newMethod(lastCall[1].service, lastCall[1].md, BeforeNested, Nil)) =>
            lastRet[1].err =
                Some([kind |-> "additional_binding in additional_binding not allowed",
                      service |-> lastCall[1].service,
                      method |-> lastCall[1].md.Name])

C4_Witness ==
    /\ Ruled /\ HasNested # {}
    /\ pc = "failed"
    /\ meths = <<>>
    /\ svc[1].Methods = <<>>
    /\ lastRet[1].err[1].kind = "additional_binding in additional_binding not allowed"
    /\ lastRet[1].err[1].service = "S1"

-----------------------------------------------------------------------------
(* What a field path means, read from its end: the last component names a  *)
(* field of the message type of the field that the rest of the path names. *)

FieldNamed(M, name) ==
    LET S == {i \in 1..Len(M.Fields) : M.Fields[i].Name = name}
    IN  IF S = {} THEN Nil ELSE Some(M.Fields[CHOOSE i \in S : TRUE])

RECURSIVE Denotes(_, _)
Denotes(M, path) ==
    IF Len(path) = 1 THEN FieldNamed(M, path[1])
    ELSE LET p == Denotes(M, SubSeq(path, 1, Len(path) - 1))
         IN  IF p = Nil THEN Nil
             ELSE IF p[1].Type \notin Aggregate \/ p[1].TypeName \notin DOMAIN msgs
             THEN Nil
             ELSE FieldNamed(msgs[p[1].TypeName], path[Len(path)])

Prefix(path, k) == SubSeq(path, 1, k)

\* the walk over path, strict or not, gets to look component k up
Reached(M, path, k, strict) ==
    /\ \A j \in 1..(k - 1) :
          /\ Denotes(M, Prefix(path, j)) # Nil
          /\ strict => ~Denotes(M, Prefix(path, j))[1].Proto3Optional
    /\ k > 1 => LET p == Denotes(M, Prefix(path, k - 1))[1]
                IN  p.Type \in Aggregate /\ p.TypeName \in DOMAIN msgs

HasOptional(M, path) ==
    \E k \in 1..Len(path) :
        /\ Denotes(M, Prefix(path, k)) # Nil
        /\ Denotes(M, Prefix(path, k))[1].Proto3Optional

Returned(op) == pc = "call" /\ ret[op] # Nil

\* C5: resolveFieldPath on c1.c2...cn against M returns exactly n components
\* in path order, component i being the field named ci of the message type of
\* component i-1 (of M for i = 1); when the message reached at some step has
\* no field of that component's name, it fails with an error naming the whole
\* path and the root message M.
C5_ResolveInOrderOrNameRoot ==
    \A op \in {"resolveFieldPath/strict", "resolveFieldPath/loose"} :
      (Returned(op) /\ call.path # <<>>) =>
        LET M == msgs[call.msg]
            p == call.path
            r == ret[op][1]
            strict == (op = "resolveFieldPath/strict")
        IN  /\ ~IsErr(r) =>
                 /\ Len(r.val) = Len(p)
                 /\ \A i \in 1..Len(p) :
                       /\ r.val[i].Name = p[i]
                       /\ Some(r.val[i].Target) = Denotes(M, Prefix(p, i))
            /\ \A k \in 1..Len(p) :
                 (Reached(M, p, k, strict) /\ Denotes(M, Prefix(p, k)) = Nil) =>
                     r = Fail([kind |-> "no field found", path |-> JoinDot(p),
                               in |-> M.Name])

\* a three-component path resolved through two other messages, and a path
\* whose second component is missing from the message reached
C5_Witness ==
    /\ Returned("resolveFieldPath/loose")
    /\ Returned("resolveFieldPath/strict")
    /\ call.msg = ".pkg.Req"
    /\ Len(call.path) = 3
    /\ ~IsErr(ret["resolveFieldPath/loose"][1])
    /\ ret["resolveFieldPath/loose"][1].val[3].Target.Message = ".pkg.Sub"
    /\ IsErr(ret["resolveFieldPath/strict"][1])

\* C6: a path parameter bound through a field marked proto3-optional is
\* rejected and no Parameter is produced; the same path as a body or as a
\* response body is accepted.
C6_OptionalRejectedForParamOnly ==
    (pc = "call" /\ call.path # <<"*">> /\ call.path # <<>>
       /\ HasOptional(msgs[call.msg], call.path)) =>
      /\ ret["newParam"] # Nil =>
            /\ IsErr(ret["newParam"][1])
            /\ ret["newParam"][1].err[1].kind = "optional field not allowed in field path"
            /\ ret["newParam"][1].val = Nil
      /\ \A op \in {"newBody", "newResponse"} :
            (ret[op] # Nil /\ Denotes(msgs[call.msg], call.path) # Nil) =>
                /\ ~IsErr(ret[op][1])
                /\ ret[op][1].val # Nil
                /\ Len(ret[op][1].val[1].FieldPath) = Len(call.path)

C6_Witness ==
    /\ pc = "call"
    /\ Len(call.path) = 2
    /\ Denotes(msgs[call.msg], call.path) # Nil
    /\ Denotes(msgs[call.msg], call.path)[1].Proto3Optional
    /\ ret["newParam"] # Nil /\ IsErr(ret["newParam"][1])
    /\ ret["newBody"] # Nil /\ ~IsErr(ret["newBody"][1])
    /\ ret["newResponse"] # Nil /\ ~IsErr(ret["newResponse"][1])

\* the path resolves in the strict mode: it names a field and crosses no
\* optional one
StrictlyDenotes(M, path) ==
    /\ path # <<>>
    /\ Denotes(M, path) # Nil
    /\ ~HasOptional(M, path)

\* C7: a path parameter whose terminal field is of message or group type is
\* rejected unless the field's type is a well-known type, and then it
\* succeeds; a scalar terminal field passes, whatever the types of the
\* components before it.
C7_AggregateParamNeedsWellKnownType ==
    (Returned("newParam") /\ StrictlyDenotes(msgs[call.msg], call.path)) =>
        LET t == Denotes(msgs[call.msg], call.path)[1]
            r == ret["newParam"][1]
        IN  IF t.Type \in Aggregate /\ ~IsWellKnownType(t.TypeName)
            THEN /\ IsErr(r)
                 /\ r.err[1].kind = "protobuf message type as path parameter"
                 /\ r.val = Nil
            ELSE /\ ~IsErr(r)
                 /\ r.val # Nil
                 /\ r.val[1].Target = t
                 /\ Len(r.val[1].FieldPath) = Len(call.path)

\* a well-known-typed field reached through a message that is not well known
C7_Witness ==
    /\ Returned("newParam")
    /\ Len(call.path) >= 2
    /\ ~IsErr(ret["newParam"][1])
    /\ ret["newParam"][1].val[1].Target.Type \in Aggregate
    /\ ~IsWellKnownType(ret["newParam"][1].val[1].FieldPath[1].Target.TypeName)

-----------------------------------------------------------------------------
(* What the emitter made of the loaded file. *)

Emitting == emit # Nil /\ emit[1].status = "ok"

\* the methods the emitter wrote text for, each with its text
EmittedMethods ==
    UNION {UNION {{[text |-> emit[1].code[1][i].Methods[k], m |-> fileServices[1][j].Methods[k]] :
                     k \in 1..Len(fileServices[1][j].Methods)} :
                  j \in {j \in 1..Len(fileServices[1]) :
                            fileServices[1][j].Name = emit[1].code[1][i].Name}} :
           i \in 1..Len(emit[1].code[1])}

\* the request's direct field names, in declaration order, that are neither
\* the body's field path nor a path parameter's field path of binding b
DirectFieldsLeft(m, b) ==
    LET declared == [i \in 1..Len(msgs[m.RequestType].Fields) |->
                        msgs[m.RequestType].Fields[i].Name]
        taken == (IF b.Body # Nil THEN {JoinDot(NamesOf(b.Body[1].FieldPath))} ELSE {})
                   \cup {JoinDot(NamesOf(b.PathParams[i].FieldPath)) :
                            i \in 1..Len(b.PathParams)}
    IN  SelectSeq(declared, LAMBDA name : name \notin taken)

\* C8, as the specification states it: the query parameters are the request
\* message's direct field names minus the body's field path and minus every
\* path parameter's field path, in declaration order.
C8_QueryParamsAsStated ==
    Emitting => \A e \in EmittedMethods :
                    e.text.qList = DirectFieldsLeft(e.m, e.m.Bindings[1][1])

\* C8: the query parameters of a method, read off its first binding, are the
\* request message's direct field names minus the body's field path and
\* minus every path parameter's field path, in declaration order, except
\* that there are none when the body is the whole message.
C8_QueryParamsUnlessWholeBody ==
    Emitting => \A e \in EmittedMethods :
        LET b == e.m.Bindings[1][1]
        IN  e.text.qList = (IF b.Body # Nil /\ b.Body[1].FieldPath = <<>> THEN <<>>
                            ELSE DirectFieldsLeft(e.m, b))

\* a binding with a path parameter and a body field, and fields left over
C8_Witness ==
    /\ Emitting
    /\ \E e \in EmittedMethods :
          /\ Len(e.m.Bindings[1][1].PathParams) = 1
          /\ e.m.Bindings[1][1].Body # Nil
          /\ e.m.Bindings[1][1].Body[1].FieldPath # <<>>
          /\ e.text.qList # <<>>
          /\ "id" \notin {e.text.qList[i] : i \in 1..Len(e.text.qList)}

\* the places of the file's bindings, <<service, method, binding>>, which the
\* emitter visits in lexicographic order
Places ==
    UNION {UNION {{<<s, m, b>> : b \in 1..Len(fileServices[1][s].Methods[m].Bindings)} :
                  m \in 1..Len(fileServices[1][s].Methods)} :
           s \in 1..Len(fileServices[1])}

At(t) == fileServices[1][t[1]].Methods[t[2]].Bindings[t[3]]

Earlier(t, u) ==
    \/ t[1] < u[1]
    \/ t[1] = u[1] /\ t[2] < u[2]
    \/ t[1] = u[1] /\ t[2] = u[2] /\ t[3] < u[3]

\* the binding at u has the verb and the template of an earlier one of its service
Repeats(t, u) ==
    /\ Earlier(t, u) /\ t[1] = u[1]
    /\ At(t) # Nil /\ At(u) # Nil
    /\ At(t)[1].HTTPMethod = At(u)[1].HTTPMethod
    /\ At(t)[1].PathTmpl.Template = At(u)[1].PathTmpl.Template

\* C9: when the emitter's walk over the bindings of a service comes to one
\* with the verb and the compiled template of a binding it has seen in that
\* service, of the same method or of another, applyTemplate returns the
\* duplicate error and no output; it returns that error for nothing else.
C9_DuplicateRouteRejected ==
    emit # Nil =>
      /\ (\E u \in Places :
             /\ \E t \in Places : Repeats(t, u)
             /\ \A t \in Places : Earlier(t, u) => At(t) # Nil) =>
            /\ emit[1].status = "error"
            /\ emit[1].err[1].kind = "duplicate annotation"
            /\ emit[1].code = Nil
      /\ (emit[1].err # Nil /\ emit[1].err[1].kind = "duplicate annotation") =>
            \E u, t \in Places : Repeats(t, u)

\* two methods of one service with the same route
C9_Witness ==
    /\ emit # Nil
    /\ emit[1].status = "error"
    /\ emit[1].err[1].kind = "duplicate annotation"
    /\ emit[1].code = Nil
    /\ \E u, t \in Places : Repeats(t, u) /\ t[2] # u[2]

\* C10: a rule option set with no pattern set yields no binding and no
\* error: the Bindings of a method newMethod returned hold no nil entry,
\* whether the option set is a primary rule or an additional_bindings entry.
C10_NoNilBinding ==
    (Ruled /\ ~IsErr(lastRet[1])) =>
        \A i \in 1..Len(lastRet[1].val[1].Bindings) : lastRet[1].val[1].Bindings[i] # Nil

-----------------------------------------------------------------------------
(* The bindings of a method, read off its rules. *)

\* the rules a method is bound by: those stated, or the default one
AppliedRules ==
    IF StatedRules # <<>> THEN StatedRules
    ELSE IF generateUnboundMethods
    THEN <<Rule("post", <<Lit(Package \o "." \o lastCall[1].service),
                          Lit(lastCall[1].md.Name)>>, "", <<"*">>, <<>>, <<>>)>>
    ELSE <<>>

\* the option sets of the rules in the order stated: each rule, then the
\* entries of its additional_bindings
RECURSIVE Visits(_)
Visits(rules) ==
    IF rules = <<>> THEN <<>>
    ELSE <<[o |-> Head(rules), primary |-> TRUE]>>
           \o [i \in 1..Len(Head(rules).AdditionalBindings) |->
                 [o |-> Head(rules).AdditionalBindings[i], primary |-> FALSE]]
           \o Visits(Tail(rules))

Patternless(o) ==
    \/ o.Pattern.kind = ""
    \/ o.Pattern.kind # "custom" /\ o.Pattern.path = <<>>

VerbOf(o) ==
    CASE o.Pattern.kind = "get"    -> "GET"
      [] o.Pattern.kind = "put"    -> "PUT"
      [] o.Pattern.kind = "post"   -> "POST"
      [] o.Pattern.kind = "delete" -> "DELETE"
      [] o.Pattern.kind = "patch"  -> "PATCH"
      [] OTHER                     -> o.Pattern.verb

ServicesSoFar == svcs \o (IF svc = Nil THEN <<>> ELSE svc)

\* C12: with default generation off, a method with neither an external nor an
\* inline rule does not fail loadServices: it is created with zero bindings,
\* appended to its service's Methods and entered in the registry's method
\* table, and loading goes on.
C12_UnboundMethodKept ==
    (Ruled /\ ~generateUnboundMethods /\ StatedRules = <<>>
       /\ lastCall[1].md.Role = Nil
       /\ {lastCall[1].md.InputType, lastCall[1].md.OutputType} \subseteq DOMAIN msgs) =>
      /\ ~IsErr(lastRet[1])
      /\ lastRet[1].val[1].Bindings = <<>>
      /\ pc # "failed" /\ loadErr = Nil
      /\ FQMN(lastCall[1].service, lastCall[1].md.Name) \in DOMAIN meths
      /\ meths[FQMN(lastCall[1].service, lastCall[1].md.Name)] = lastRet[1].val[1]
      /\ \E i \in 1..Len(ServicesSoFar) :
            /\ ServicesSoFar[i].Name = lastCall[1].service
            /\ ServicesSoFar[i].Methods # <<>>
            /\ ServicesSoFar[i].Methods[Len(ServicesSoFar[i].Methods)] = lastRet[1].val[1]

\* a second method without rules loaded after a first one
C12_Witness ==
    /\ Ruled /\ ~generateUnboundMethods /\ StatedRules = <<>>
    /\ pc = "load"
    /\ lastCall[1].md.Name = "M2"
    /\ DOMAIN meths = {".pkg.S1.M1", ".pkg.S1.M2"}
    /\ meths[".pkg.S1.M1"].Bindings = <<>>
    /\ meths[".pkg.S1.M2"].Bindings = <<>>
    /\ Len(svc[1].Methods) = 2

\* the method has one rule, without additional bindings, whose verb and
\* bodies are in order
LoneRuleInOrder ==
    /\ Ruled /\ Len(StatedRules) = 1
    /\ lastCall[1].md.Role = Nil
    /\ ~Patternless(StatedRules[1])
    /\ StatedRules[1].Pattern.path # <<>>
    /\ StatedRules[1].AdditionalBindings = <<>>
    /\ StatedRules[1].ResponseBody = <<>>
    /\ StatedRules[1].Body \in {<<>>, <<"*">>, <<"id">>}
    /\ StatedRules[1].Pattern.kind = "get" => StatedRules[1].Body = <<>>
    /\ StatedRules[1].Pattern.kind = "delete" => (StatedRules[1].Body = <<>> \/ allowDeleteBody)

\* C13: for a client-streaming method every rule, primary or additional,
\* whose path template captures a field is rejected with an error; a
\* client-streaming method whose templates capture nothing, the default
\* rule's included, is accepted.
C13_NoCapturesWhenClientStreaming ==
    /\ (Ruled /\ lastCall[1].md.ClientStreaming
          /\ \E o \in StatedOptionSets :
                ~Patternless(o) /\ Captures(o.Pattern.path) # <<>>) => Rejected
    /\ (LoneRuleInOrder /\ lastCall[1].md.ClientStreaming) =>
          IF Captures(StatedRules[1].Pattern.path) # <<>>
          THEN /\ Rejected
               /\ lastRet[1].err[1].kind = "cannot use path parameter in client streaming"
          ELSE /\ ~IsErr(lastRet[1])
               /\ Len(lastRet[1].val[1].Bindings) = 1
               /\ lastRet[1].val[1].Bindings[1] # Nil
               /\ lastRet[1].val[1].Bindings[1][1].PathParams = <<>>
    /\ (Ruled /\ lastCall[1].md.ClientStreaming /\ StatedRules = <<>>
          /\ generateUnboundMethods /\ lastCall[1].md.Role = Nil) =>
          /\ ~IsErr(lastRet[1])
          /\ Len(lastRet[1].val[1].Bindings) = 1

\* an additional binding with a capture, after a primary rule without one
C13_Witness ==
    /\ Ruled /\ lastCall[1].md.ClientStreaming
    /\ lastCall[1].ext = <<>> /\ lastCall[1].md.Http # Nil
    /\ Captures(lastCall[1].md.Http[1].Pattern.path) = <<>>
    /\ GetPost(lastCall[1].md.Http[1]) # <<>>
    /\ Len(lastCall[1].md.Http[1].AdditionalBindings) = 1
    /\ Captures(lastCall[1].md.Http[1].AdditionalBindings[1].Pattern.path) # <<>>
    /\ Rejected
    /\ lastRet[1].err[1].kind = "cannot use path parameter in client streaming"

\* every prefix of the path names a field: the path resolves in the
\* non-strict mode
LooselyDenotes(M, path) == \A k \in 1..Len(path) : Denotes(M, Prefix(path, k)) # Nil

\* the field chain fp is the resolution of path against M
ChainOf(fp, M, path) ==
    /\ Len(fp) = Len(path)
    /\ \A k \in 1..Len(path) :
          /\ fp[k].Name = path[k]
          /\ Some(fp[k].Target) = Denotes(M, Prefix(path, k))

IsKebab(value) ==
    /\ Len(value) >= 1
    /\ value[1] \in Lower
    /\ \A i \in 1..Len(value) : value[i] \in Lower \cup Digit \cup {"-"}
    /\ value[Len(value)] # "-"
    /\ \A i \in 1..(Len(value) - 1) : ~(value[i] = "-" /\ value[i + 1] = "-")

\* the fields of a role in the order they are validated
RoleFields(role) ==
    <<[field |-> "resource", value |-> role.Resource],
      [field |-> "verb", value |-> role.Verb]>>
      \o [i \in 1..Len(role.Scope) |->
            [field |-> "scope[" \o ToString(i - 1) \o "]", value |-> role.Scope[i]]]

\* C15: a method without a role annotation yields no role and no error; with
\* one, extraction succeeds iff resource, verb and every scope are empty or
\* in kebab case, and otherwise reports the first violation in the order
\* resource, verb, scopes by index, with the field name, the value and the
\* method name.
C15_RoleExtraction ==
    (pc = "role" /\ ret # Nil) =>
        IF call.md.Role = Nil THEN ret[1] = Ok(Nil)
        ELSE LET fs == RoleFields(call.md.Role[1])
                 bad == {i \in 1..Len(fs) : fs[i].value # <<>> /\ ~IsKebab(fs[i].value)}
             IN  IF bad = {} THEN ret[1] = Ok(call.md.Role)
                 ELSE LET first == CHOOSE i \in bad : \A j \in bad : i <= j
                      IN  ret[1] = Fail([kind |-> "invalid role",
                                         method |-> call.md.Name,
                                         field |-> fs[first].field,
                                         value |-> fs[first].value])

\* two scopes out of kebab case after a resource and a verb in it
C15_Witness ==
    /\ pc = "role" /\ ret # Nil
    /\ call.md.Role # Nil
    /\ call.md.Role[1].Resource = <<"a", "-", "1", "a">>
    /\ call.md.Role[1].Verb = <<"a", "-", "b">>
    /\ call.md.Role[1].Scope = << <<"C">>, <<"C">> >>
    /\ IsErr(ret[1])
    /\ ret[1].err[1].field = "scope[0]"

\* loadServices returned an error: nothing of the file is assigned, and
\* nothing is generated
LoadFailedCleanly ==
    pc = "failed" =>
      /\ Ruled /\ IsErr(lastRet[1])
      /\ loadErr = lastRet[1].err
      /\ fileServices = Nil
      /\ emit = Nil /\ files = <<>> /\ genRet = Nil

\* Generate returned: an error comes with no response file, whatever was
\* generated before it
GenerateAllOrNothing ==
    genRet # Nil =>
      IF genRet[1].err # Nil
      THEN /\ genRet[1].files = Nil
           /\ ntarget < Len(targets)
      ELSE /\ genRet[1].files = Some(files)
           /\ ntarget = Len(targets)

\* C16: the first error met while loading a file's services is returned at
\* once: no later method or service of the file is processed and
\* file.Services stays unassigned; and when generating a target fails,
\* Generate returns the error with no response files, even where earlier
\* targets were generated, and visits no later target.
C16_FailFast ==
    /\ [](LoadFailedCleanly /\ GenerateAllOrNothing)
    /\ [][pc # "failed" /\ genRet = Nil]_vars

\* a first target generated, a second one failing on a duplicate route
C16_Witness ==
    /\ genRet # Nil
    /\ genRet[1].err # Nil
    /\ genRet[1].err[1].kind = "duplicate annotation"
    /\ genRet[1].files = Nil
    /\ Len(files) = 1
    /\ ntarget = 1

\* the walk over path, strict or not, has resolved component k
Resolved(M, path, k, strict) ==
    /\ Reached(M, path, k, strict)
    /\ Denotes(M, Prefix(path, k)) # Nil
    /\ strict => ~Denotes(M, Prefix(path, k))[1].Proto3Optional

\* C17: for every path component beyond the first, the field resolved before
\* it must be of message or group type: a scalar field there fails the
\* resolution with an error naming that field and the path, an aggregate
\* whose type the registry does not know fails it with the lookup error, and
\* neither returns a partial chain.
C17_AggregateBeforeNextComponent ==
    \A op \in {"resolveFieldPath/strict", "resolveFieldPath/loose"} :
      Returned(op) =>
        \A k \in 2..Len(call.path) :
          Resolved(msgs[call.msg], call.path, k - 1, op = "resolveFieldPath/strict") =>
            LET f == Denotes(msgs[call.msg], Prefix(call.path, k - 1))[1]
                r == ret[op][1]
            IN  /\ f.Type \notin Aggregate =>
                      r = [err |-> Some([kind |-> "not an aggregate type",
                                         field |-> f.Name,
                                         path |-> JoinDot(call.path)]),
                           val |-> Nil]
                /\ (f.Type \in Aggregate /\ f.TypeName \notin DOMAIN msgs) =>
                      /\ r.err = LookupMsg(call.msg, f.TypeName).err
                      /\ r.err # Nil
                      /\ r.val = Nil

\* a scalar field met after a message field, with a component to go
C17_Witness ==
    /\ Returned("resolveFieldPath/loose")
    /\ Len(call.path) = 3
    /\ call.path[1] = "sub"
    /\ IsErr(ret["resolveFieldPath/loose"][1])
    /\ ret["resolveFieldPath/loose"][1].err[1].kind = "not an aggregate type"
    /\ ret["resolveFieldPath/loose"][1].err[1].field = "id"

\* applyTemplate got as far as executing the template
TemplateRuns ==
    /\ emit # Nil
    /\ emit[1].status # "panic"
    /\ emit[1].err # Some(errNoTargetService)
    /\ emit[1].err # Nil => emit[1].err[1].kind # "duplicate annotation"

\* C18: the emitter never reads the first binding of a method without
\* bindings: in every service it selects for output (one with a method that
\* has a binding), every method the template renders has a non-empty
\* Bindings list whose first entry is present.
C18_RenderedMethodsHaveBinding ==
    TemplateRuns =>
        \A s \in 1..Len(fileServices[1]) :
            (\E m \in 1..Len(fileServices[1][s].Methods) :
                 Len(fileServices[1][s].Methods[m].Bindings) > 0) =>
            \A m \in 1..Len(fileServices[1][s].Methods) :
                /\ Len(fileServices[1][s].Methods[m].Bindings) > 0
                /\ fileServices[1][s].Methods[m].Bindings[1] # Nil

\* C19: no binding of a successfully loaded method has the verb GET together
\* with a request body, whether a get pattern or a custom pattern of kind
\* GET gave the verb.
C19_NoGetWithBody ==
    (Ruled /\ ~IsErr(lastRet[1])) =>
        \A i \in 1..Len(lastRet[1].val[1].Bindings) :
            lastRet[1].val[1].Bindings[i] # Nil =>
                ~(/\ lastRet[1].val[1].Bindings[i][1].HTTPMethod = "GET"
                  /\ lastRet[1].val[1].Bindings[i][1].Body # Nil)

\* C20: with default generation on, every method that loadServices loads
\* ends with at least one binding, whatever its rules are.
C20_DefaultOnGivesBinding ==
    (Ruled /\ generateUnboundMethods /\ ~IsErr(lastRet[1])) =>
        \E i \in 1..Len(lastRet[1].val[1].Bindings) : lastRet[1].val[1].Bindings[i] # Nil

=============================================================================
